---- MODULE Spec2Model ----
(***************************************************************************)
(* Sum-product message passing over factor graphs                          *)
(* (bayesian/factor_graph.py).                                             *)
(*                                                                         *)
(* A node object is a record; a node is referred to by its index in        *)
(* FactorGraph.nodes, and its name is that index (names are unique).       *)
(* A Python callable with its stapled attributes is a record               *)
(*   [name, argspec, domains, tab, raises]                                 *)
(* where tab maps every binding of the argspec (a function from the        *)
(* parameter names to values) to the number the callable returns there,    *)
(* and raises maps it to the exception the call raises there, "None" when  *)
(* it returns.                                                             *)
(***************************************************************************)
EXTENDS Integers, Sequences, FiniteSets, TLC

\* Largest tree (number of nodes) of the full lifecycle specification Spec.
MaxNodes == 3
\* Largest tree (number of nodes) of the single-run specification RunSpec.
MaxTreeNodes == 5
\* Factor tables are drawn from the families 0..MaxSeed.
MaxSeed == 0
\* Number of API calls (propagate, reset, add_evidence, pop_evidence) made on one graph.
MaxCalls == 3
\* Number of nodes created by the construction specification BuildSpec.
MaxBuildNodes == 3
\* Number of constructor and connect calls of BuildSpec.
MaxBuildCalls == 4
\* Longest list given to a constructor or to connect in BuildSpec.
MaxListLen == 1
\* Most parameters of the function given to eliminate_var and make_not_sum_func in ElimSpec.
MaxParams == 3

VARIABLES
    nodes,             \* FactorGraph.nodes: the node objects, in list order
    seed,              \* which family of factor functions the graph was built with
    pc,                \* position inside FactorGraph.propagate: "idle", "while", "for"
    step,              \* propagate's local round counter
    eligible_senders,  \* propagate's local list, the part the for loop has not visited
    calls,             \* the API calls made so far, in order
    err,               \* the exception the last API call raised, "None" if none
    deliveries,        \* how often Node.send wrote each mailbox key since the last reset
    reference,         \* the mailboxes after the first propagate() of the fresh graph
    retval             \* what the last query returned: <<number>>, <<>> when nothing was returned

vars == <<nodes, seed, pc, step, eligible_senders, calls, err, deliveries, reference, retval>>

----------------------------------------------------------------------------
\* Generic helpers.

Range(s) == {s[i] : i \in DOMAIN s}

Min(S) == CHOOSE x \in S : \A y \in S : x <= y

Max(S) == CHOOSE x \in S : \A y \in S : x >= y

RECURSIVE SortedSeq(_)
\* list(set(...)): the order Python gives is arbitrary; ascending is taken here,
\* every use of an argspec is by name.
SortedSeq(S) == IF S = {} THEN <<>> ELSE <<Min(S)>> \o SortedSeq(S \ {Min(S)})

RECURSIVE SumFn(_)
\* The sum of the values of a function.
SumFn(f) ==
    IF DOMAIN f = {} THEN 0
    ELSE LET x == CHOOSE y \in DOMAIN f : TRUE
         IN  f[x] + SumFn([y \in DOMAIN f \ {x} |-> f[y]])

RECURSIVE ProdSeq(_)
ProdSeq(s) == IF s = <<>> THEN 1 ELSE Head(s) * ProdSeq(Tail(s))

RemoveFirst(s, x) ==
    LET i == Min({j \in DOMAIN s : s[j] = x})
    IN  SubSeq(s, 1, i - 1) \o SubSeq(s, i + 1, Len(s))

----------------------------------------------------------------------------
\* Callables: factor functions, products, eliminations, evidence wrappers.

\* The values of every variable's domain.
Domain == {TRUE, FALSE}

Bindings(args) == [args -> Domain]

\* get_args: the argspec attribute (or the signature) of a callable or message.
get_args(f) == f.argspec

\* f(*call_args) with the arguments matched to f's parameters by name.
Call(f, b) == f.tab[[x \in Range(get_args(f)) |-> b[x]]]

\* The exception f(*call_args) raises, "None" when it returns.
CallRaises(f, b) == f.raises[[x \in Range(get_args(f)) |-> b[x]]]

\* The module-level function unity: no parameters, returns 1.
unity == [name |-> "unity", argspec |-> <<>>, domains |-> <<>>,
          tab |-> [b \in Bindings({}) |-> 1],
          raises |-> [b \in Bindings({}) |-> "None"]]

\* Message.__call__: the unity function is never called, 1 is returned for it.
MessageCall(m, b) == IF m.func.name = "unity" THEN 1 ELSE Call(m.func, b)

MessageRaises(m, b) == IF m.func.name = "unity" THEN "None" ELSE CallRaises(m.func, b)

\* A factor of make_product_func's list is a callable or a message; a message
\* is called through Message.__call__ and carries its own argspec.
IsMessage(x) == "source" \in DOMAIN x

FactorArgs(x) == IF IsMessage(x) THEN x.argspec ELSE get_args(x)

\* hasattr(factor, 'domains'): a VariableMessage has none, modelled as the empty map.
FactorDomains(x) == x.domains

FactorCall(x, b) ==
    LET present == [a \in Range(FactorArgs(x)) \cap DOMAIN b |-> b[a]]
    IN  IF IsMessage(x) THEN MessageCall(x, present) ELSE Call(x, present)

FactorRaises(x, b) ==
    LET present == [a \in Range(FactorArgs(x)) \cap DOMAIN b |-> b[a]]
    IN  IF IsMessage(x) THEN MessageRaises(x, present) ELSE CallRaises(x, present)

RECURSIVE MergeDomains(_)
\* domains.update(factor.domains) over the factors, later entries winning.
MergeDomains(factors) ==
    IF factors = <<>> THEN <<>>
    ELSE LET last == FactorDomains(factors[Len(factors)])
             rest == MergeDomains(SubSeq(factors, 1, Len(factors) - 1))
         IN  [x \in DOMAIN last \cup DOMAIN rest |->
                 IF x \in DOMAIN last THEN last[x] ELSE rest[x]]

\* product_func calls the factors in list order: the first one that raises
\* ends the call.
make_product_func(factors) ==
    LET all_args == UNION {Range(FactorArgs(factors[i])) : i \in DOMAIN factors}
        RaisesAt(b) ==
            LET bad == {i \in DOMAIN factors : FactorRaises(factors[i], b) # "None"}
            IN  IF bad = {} THEN "None" ELSE FactorRaises(factors[Min(bad)], b)
    IN  [name |-> "product_func",
         argspec |-> SortedSeq(all_args),
         domains |-> MergeDomains(factors),
         tab |-> [b \in {c \in Bindings(all_args) : RaisesAt(c) = "None"} |->
                    ProdSeq([i \in DOMAIN factors |-> FactorCall(factors[i], b)])],
         raises |-> [b \in Bindings(all_args) |-> RaisesAt(b)]]

\* eliminate_var changed: only one value of the domain is visited.
eliminate_var_one_value(f, var) ==
    LET new_spec == RemoveFirst(get_args(f), var)
        Extend(b, val) == [x \in Range(get_args(f)) |-> IF x = var THEN val ELSE b[x]]
    IN  [name |-> "eliminated",
         argspec |-> new_spec,
         domains |-> f.domains,
         tab |-> [b \in Bindings(Range(new_spec)) |->
                    f.tab[Extend(b, CHOOSE val \in f.domains[var] : TRUE)]],
         raises |-> [b \in Bindings(Range(new_spec)) |-> "None"]]

\* eliminate_var changed: a parameter without a registered domain is summed
\* over the two truth values.
eliminate_var_default_domain(f, var) ==
    LET new_spec == RemoveFirst(get_args(f), var)
        Extend(b, val) == [x \in Range(get_args(f)) |-> IF x = var THEN val ELSE b[x]]
    IN  [name |-> "eliminated",
         argspec |-> new_spec,
         domains |-> f.domains,
         tab |-> [b \in Bindings(Range(new_spec)) |->
                    SumFn([val \in Domain |-> f.tab[Extend(b, val)]])],
         raises |-> [b \in Bindings(Range(new_spec)) |-> "None"]]

\* What the construction of the eliminated function may end with when
\* f.domains is empty: "import ipdb; ipdb.set_trace()" fails to import, or the
\* debugger is quit, or it is told to continue ("None").
eliminate_var_raises(f, var) ==
    IF DOMAIN f.domains = {} THEN {"ImportError", "BdbQuit", "None"} ELSE {"None"}

\* eliminate_var: the function returned.  Its call looks up f.domains[var]
\* (KeyError when var has no entry) and adds up f over the values; the first
\* call of f that raises ends it (every exception f can raise here is the
\* same one).
eliminate_var(f, var) ==
    LET new_spec == RemoveFirst(get_args(f), var)
        Extend(b, val) == [x \in Range(get_args(f)) |-> IF x = var THEN val ELSE b[x]]
        RaisesAt(b) ==
            IF var \notin DOMAIN f.domains THEN "KeyError"
            ELSE LET bad == {val \in f.domains[var] : f.raises[Extend(b, val)] # "None"}
                 IN  IF bad = {} THEN "None"
                     ELSE f.raises[Extend(b, CHOOSE val \in bad : TRUE)]
    IN  [name |-> "eliminated",
         argspec |-> new_spec,
         domains |-> f.domains,
         tab |-> [b \in {c \in Bindings(Range(new_spec)) : RaisesAt(c) = "None"} |->
                    SumFn([val \in f.domains[var] |-> f.tab[Extend(b, val)]])],
         raises |-> [b \in Bindings(Range(new_spec)) |-> RaisesAt(b)]]

RECURSIVE EliminateAll(_, _, _)
EliminateAll(f, args, keep_var) ==
    IF args = <<>> THEN f
    ELSE IF Head(args) # keep_var
         THEN EliminateAll(eliminate_var(f, Head(args)), Tail(args), keep_var)
         ELSE EliminateAll(f, Tail(args), keep_var)

make_not_sum_func(product_func, keep_var) ==
    EliminateAll(product_func, get_args(product_func), keep_var)

\* What make_not_sum_func may end with: that of its first eliminate_var call
\* (every function of the chain has the domains of product_func).
make_not_sum_func_raises(product_func, keep_var) ==
    LET eliminated == SelectSeq(get_args(product_func), LAMBDA arg : arg # keep_var)
    IN  IF eliminated = <<>> THEN {"None"}
        ELSE eliminate_var_raises(product_func, Head(eliminated))

----------------------------------------------------------------------------
\* Nodes, messages and topology.

\* The no-target value get_target returns: no node has index 0.
None == 0

\* VariableNode.__init__
VariableNode(name, neighbours) ==
    [kind |-> "VariableNode", name |-> name, neighbours |-> neighbours,
     received_messages |-> <<>>, value |-> "None"]

\* FactorNode.__init__
FactorNode(name, func, neighbours) ==
    [kind |-> "FactorNode", name |-> name, func |-> func, neighbours |-> neighbours,
     received_messages |-> <<>>, cached_functions |-> <<>>]

\* VariableMessage.__init__ (the factors list is provenance only and is left out).
VariableMessage(source, destination, func) ==
    [type |-> "VariableMessage", source |-> source, destination |-> destination,
     argspec |-> get_args(func), func |-> func, domains |-> <<>>]

\* FactorMessage.__init__ (the factors list is provenance only and is left out).
FactorMessage(source, destination, func) ==
    [type |-> "FactorMessage", source |-> source, destination |-> destination,
     func |-> func, argspec |-> get_args(func), domains |-> func.domains]

RECURSIVE connect(_, _, _)
\* connect(a, b) with b a list (a single node is first wrapped into a list).
connect(ns, a, b) ==
    IF b = <<>> THEN ns
    ELSE LET b_ == Head(b)
             ns1 == [ns EXCEPT ![a].neighbours = Append(@, b_)]
             ns2 == [ns1 EXCEPT ![b_].neighbours = Append(@, a)]
         IN  connect(ns2, a, Tail(b))

is_leaf(node) == Len(node.neighbours) = 1

\* needed_to_send changed: every neighbour counts as missing, the target included.
needed_to_send_all_neighbours(ns, n, target) ==
    LET neighbours == ns[n].neighbours
        received == ns[n].received_messages
    IN  Len(neighbours)
        - Cardinality({<<k, j>> \in (DOMAIN received) \X (DOMAIN neighbours) :
                          neighbours[j] = target /\ received[k].source # target})

\* needed_to_send changed: a message counts whatever its source.
needed_to_send_any_source(ns, n, target) ==
    LET neighbours == ns[n].neighbours
        received == ns[n].received_messages
    IN  (Len(neighbours) - 1)
        - Cardinality({<<k, j>> \in (DOMAIN received) \X (DOMAIN neighbours) :
                          neighbours[j] = target})

\* needed_to_send[target] at the end of get_target's two counting loops.
needed_to_send(ns, n, target) ==
    LET neighbours == ns[n].neighbours
        received == ns[n].received_messages
    IN  (Len(neighbours) - 1)
        - Cardinality({<<k, j>> \in (DOMAIN received) \X (DOMAIN neighbours) :
                          neighbours[j] = target /\ received[k].source # target})

\* get_target changed: the check of the target's mailbox is left out.
get_target_resend(ns, n) ==
    {k \in Range(ns[n].neighbours) : needed_to_send(ns, n, k) = 0}

\* Node.get_target: the neighbours the final loop may return.  The loop walks a
\* dict keyed by node objects, whose order the language does not fix: any
\* member of this set may be the one returned, and None is returned when it is empty.
get_target(ns, n) ==
    {k \in Range(ns[n].neighbours) :
        /\ needed_to_send(ns, n, k) = 0
        /\ ns[n].name \notin DOMAIN ns[k].received_messages}

\* OtherMessages changed: the target's message is taken too when it is there.
OtherMessages_with_target(ns, n, target) ==
    LET neighbours == ns[n].neighbours
        others == SelectSeq(neighbours,
                            LAMBDA x : x # target
                                       \/ ns[x].name \in DOMAIN ns[n].received_messages)
    IN  [i \in DOMAIN others |-> ns[n].received_messages[ns[others[i]].name]]

\* The messages of the non-destination neighbours, in neighbour-list order.
OtherMessages(ns, n, target) ==
    LET neighbours == ns[n].neighbours
        others == SelectSeq(neighbours, LAMBDA x : x # target)
    IN  [i \in DOMAIN others |-> ns[n].received_messages[ns[others[i]].name]]

\* The re-wrapping of make_factor_node_message's loop body.
Rewrap(n, neighbour, in_message) ==
    IF in_message.destination # n
    THEN [VariableMessage(neighbour, n, in_message.func)
             EXCEPT !.argspec = in_message.argspec]
    ELSE in_message

make_factor_node_message(ns, n, target_node) ==
    LET node == ns[n] IN
    IF is_leaf(node)
    THEN FactorMessage(n, target_node,
                       make_not_sum_func(node.func, ns[target_node].name))
    ELSE LET others == SelectSeq(node.neighbours, LAMBDA x : x # target_node)
             factors == <<node.func>> \o
                 [i \in DOMAIN others |->
                     Rewrap(n, others[i], node.received_messages[ns[others[i]].name])]
             product_func == make_product_func(factors)
         IN  FactorMessage(n, target_node,
                           make_not_sum_func(product_func, ns[target_node].name))

make_variable_node_message(ns, n, target_node) ==
    LET node == ns[n] IN
    IF is_leaf(node)
    THEN VariableMessage(n, target_node, unity)
    ELSE VariableMessage(n, target_node,
                         make_product_func(OtherMessages(ns, n, target_node)))

\* VariableNode.construct_message / FactorNode.construct_message, for the
\* target get_target returned.
construct_message(ns, n, target) ==
    IF ns[n].kind = "VariableNode"
    THEN make_variable_node_message(ns, n, target)
    ELSE make_factor_node_message(ns, n, target)

\* send changed: the stored message is addressed to the sender.
send_readdressed(ns, n, message) ==
    [ns EXCEPT ![message.destination].received_messages =
        (ns[n].name :> [message EXCEPT !.destination = n]) @@ @]

\* Node.send: the assignment into the recipient's mailbox.
send(ns, n, message) ==
    [ns EXCEPT ![message.destination].received_messages =
        (ns[n].name :> message) @@ @]

\* VariableNode.marginal: the product of the received messages at val, over
\* the normalizer (kept as a fraction).
marginal(node, val, normalizer) ==
    LET received == node.received_messages
        keys == SortedSeq(DOMAIN received)
        product == ProdSeq([i \in DOMAIN keys |->
                              MessageCall(received[keys[i]], (node.name :> val))])
    IN  [num |-> product, den |-> normalizer]

\* The exception VariableNode.marginal ends with: that of the first message
\* call that raises, "None" when it returns.  No check of the mailbox is made.
marginal_raises(node, val) ==
    LET received == node.received_messages
        bad == {k \in DOMAIN received : MessageRaises(received[k], (node.name :> val)) # "None"}
    IN  IF bad = {} THEN "None"
        ELSE MessageRaises(received[Min(bad)], (node.name :> val))

\* The exception FactorNode.marginal ends with: KeyError at the first
\* neighbour whose message is not in the mailbox, else that of the first
\* call that raises, "None" when it returns.
FactorNode_marginal_raises(ns, n, val_dict) ==
    LET node == ns[n]
        received == node.received_messages
        missing == {j \in DOMAIN node.neighbours :
                       ns[node.neighbours[j]].name \notin DOMAIN received}
        Message(j) == received[ns[node.neighbours[j]].name]
        Present(j) == [a \in Range(get_args(Message(j))) |-> val_dict[a]]
        bad == {j \in DOMAIN node.neighbours : MessageRaises(Message(j), Present(j)) # "None"}
    IN  IF missing # {} THEN "KeyError"
        ELSE IF bad # {} THEN MessageRaises(Message(Min(bad)), Present(Min(bad)))
        ELSE CallRaises(node.func, val_dict)

\* FactorNode.marginal: the product of the neighbours' messages and of the
\* node's function at val_dict.
FactorNode_marginal(ns, n, val_dict) ==
    LET node == ns[n]
        Message(j) == node.received_messages[ns[node.neighbours[j]].name]
        Present(j) == [a \in Range(get_args(Message(j))) |-> val_dict[a]]
    IN  ProdSeq([j \in DOMAIN node.neighbours |-> MessageCall(Message(j), Present(j))])
        * Call(node.func, val_dict)

----------------------------------------------------------------------------
\* Evidence and reset.

\* add_evidence changed: the node's mailbox is emptied with the new evidence.
FactorNode_add_evidence_clears_mailbox(fnode, name, value) ==
    LET args == get_args(fnode.func)
        pos == Min({j \in DOMAIN args : args[j] = name})
        old_func == fnode.func
        evidence_func ==
            [name |-> "evidence_func", argspec |-> args, domains |-> old_func.domains,
             tab |-> [b \in DOMAIN old_func.tab |->
                        IF b[args[pos]] # value THEN 0 ELSE old_func.tab[b]],
             raises |-> old_func.raises]
    IN  [fnode EXCEPT !.cached_functions = <<old_func>> \o @,
                      !.func = evidence_func,
                      !.received_messages = <<>>]

\* add_evidence changed: the wrapper returns 0 where the parameter has the
\* observed value.
FactorNode_add_evidence_zeroes_observed(fnode, name, value) ==
    LET args == get_args(fnode.func)
        pos == Min({j \in DOMAIN args : args[j] = name})
        old_func == fnode.func
        evidence_func ==
            [name |-> "evidence_func", argspec |-> args, domains |-> old_func.domains,
             tab |-> [b \in DOMAIN old_func.tab |->
                        IF b[args[pos]] = value THEN 0 ELSE old_func.tab[b]],
             raises |-> old_func.raises]
    IN  [fnode EXCEPT !.cached_functions = <<old_func>> \o @,
                      !.func = evidence_func]

\* add_evidence changed: the wrapper keeps no domain for the observed parameter.
FactorNode_add_evidence_drops_domain(fnode, name, value) ==
    LET args == get_args(fnode.func)
        pos == Min({j \in DOMAIN args : args[j] = name})
        old_func == fnode.func
        evidence_func ==
            [name |-> "evidence_func", argspec |-> args,
             domains |-> [x \in DOMAIN old_func.domains \ {name} |-> old_func.domains[x]],
             tab |-> [b \in DOMAIN old_func.tab |->
                        IF b[args[pos]] # value THEN 0 ELSE old_func.tab[b]],
             raises |-> old_func.raises]
    IN  [fnode EXCEPT !.cached_functions = <<old_func>> \o @,
                      !.func = evidence_func]

\* FactorNode.add_evidence: the old function goes to the front of
\* cached_functions and the filtering wrapper becomes the active function.
FactorNode_add_evidence(fnode, name, value) ==
    LET args == get_args(fnode.func)
        pos == Min({j \in DOMAIN args : args[j] = name})
        old_func == fnode.func
        RaisesAt(b) == IF b[args[pos]] # value THEN "None" ELSE old_func.raises[b]
        evidence_func ==
            [name |-> "evidence_func", argspec |-> args, domains |-> old_func.domains,
             tab |-> [b \in {c \in DOMAIN old_func.raises : RaisesAt(c) = "None"} |->
                        IF b[args[pos]] # value THEN 0 ELSE old_func.tab[b]],
             raises |-> [b \in DOMAIN old_func.raises |-> RaisesAt(b)]]
    IN  [fnode EXCEPT !.cached_functions = <<old_func>> \o @,
                      !.func = evidence_func]

\* pop_evidence changed: an empty list is passed over in silence.
FactorNode_pop_evidence_silent(fnode) ==
    IF fnode.cached_functions = <<>>
    THEN [raised |-> "None", node |-> fnode]
    ELSE [raised |-> "None",
          node |-> [fnode EXCEPT
                      !.func = fnode.cached_functions[Len(fnode.cached_functions)],
                      !.cached_functions = SubSeq(@, 1, Len(@) - 1)]]

\* FactorNode.pop_evidence: list.pop() takes the last element and raises
\* IndexError on an empty list, before anything is assigned.
FactorNode_pop_evidence(fnode) ==
    IF fnode.cached_functions = <<>>
    THEN [raised |-> "IndexError", node |-> fnode]
    ELSE [raised |-> "None",
          node |-> [fnode EXCEPT
                      !.func = fnode.cached_functions[Len(fnode.cached_functions)],
                      !.cached_functions = SubSeq(@, 1, Len(@) - 1)]]

\* VariableNode.reset changed: the neighbour list is cleared with the mailbox.
VariableNode_reset_unlinks(node) ==
    [node EXCEPT !.received_messages = <<>>, !.neighbours = <<>>]

\* VariableNode.reset
VariableNode_reset(node) == [node EXCEPT !.received_messages = <<>>]

\* FactorNode.reset
FactorNode_reset(fnode) ==
    LET cleared == [fnode EXCEPT !.received_messages = <<>>]
    IN  IF cleared.cached_functions # <<>>
        THEN FactorNode_pop_evidence(cleared).node
        ELSE cleared

\* FactorGraph.reset: node.reset() for every node.
FactorGraph_reset(ns) ==
    [i \in DOMAIN ns |->
        IF ns[i].kind = "VariableNode"
        THEN VariableNode_reset(ns[i])
        ELSE FactorNode_reset(ns[i])]

RECURSIVE AddEvidenceLoop(_, _, _, _)
AddEvidenceLoop(ns, neighbours, name, value) ==
    IF neighbours = <<>> THEN ns
    ELSE LET f == Head(neighbours)
             ns1 == IF name \in Range(get_args(ns[f].func))
                    THEN [ns EXCEPT ![f] = FactorNode_add_evidence(@, name, value)]
                    ELSE ns
         IN  AddEvidenceLoop(ns1, Tail(neighbours), name, value)

\* add_evidence changed: a neighbouring factor that does not mention the
\* variable still has its function saved.
add_evidence_saves_skipped(ns, v, value) ==
    LET after == AddEvidenceLoop(ns, ns[v].neighbours, ns[v].name, value)
    IN  [i \in DOMAIN ns |->
            IF /\ i \in Range(ns[v].neighbours)
               /\ ns[v].name \notin Range(get_args(ns[i].func))
            THEN [after[i] EXCEPT !.cached_functions = <<after[i].func>> \o @]
            ELSE after[i]]

\* The module-level add_evidence(node, value).
add_evidence(ns, v, value) ==
    AddEvidenceLoop(ns, ns[v].neighbours, ns[v].name, value)

----------------------------------------------------------------------------
\* Graph construction.

\* The factor function given to FactorNode i: parameters args, a table of
\* small non-negative integers that depends on the family sd.
Factor(i, args, sd) ==
    LET Code(b) == SumFn([j \in DOMAIN args |-> IF b[args[j]] THEN 2 ^ (j - 1) ELSE 0])
    IN  [name |-> "f", argspec |-> args,
         domains |-> [x \in Range(args) |-> Domain],
         tab |-> [b \in Bindings(Range(args)) |->
                    ((i + sd) + Code(b) * (i + sd + 1) + (Code(b) \div 2)) % 4],
         raises |-> [b \in Bindings(Range(args)) |-> "None"]]

RECURSIVE ConnectAll(_, _)
\* The connect calls of the construction, edges[i] = <<a, list of b>>.
ConnectAll(ns, edges) ==
    IF edges = <<>> THEN ns
    ELSE ConnectAll(connect(ns, Head(edges)[1], Head(edges)[2]), Tail(edges))

\* The nodes of a graph: kinds[i] is the class of node i, edges the connect
\* calls; every factor's parameters are its neighbouring variables.
BuildGraph(kinds, edges, sd) ==
    LET Adjacent(i) ==
            {edges[e][1] : e \in {x \in DOMAIN edges : i \in Range(edges[x][2])}}
            \cup UNION {Range(edges[e][2]) : e \in {x \in DOMAIN edges : edges[x][1] = i}}
        bare == [i \in DOMAIN kinds |->
                    IF kinds[i] = "VariableNode"
                    THEN VariableNode(i, <<>>)
                    ELSE FactorNode(i, Factor(i, SortedSeq(Adjacent(i)), sd), <<>>)]
    IN  ConnectAll(bare, edges)

RECURSIVE Depth(_, _, _)
\* The distance of node i from node 1 along parent, -1 when node 1 is not reached.
Depth(parent, i, fuel) ==
    IF i = 1 THEN 0
    ELSE IF fuel = 0 THEN -1
    ELSE LET d == Depth(parent, parent[i], fuel - 1)
         IN  IF d < 0 THEN -1 ELSE d + 1

\* Every labelled tree on 1..n, as the parent of each node on its path to node 1.
TreeParents(n) ==
    {parent \in [2..n -> 1..n] : \A i \in 2..n : Depth(parent, i, n) > 0}

\* Bipartite: the classes alternate with the depth.
TreeKinds(n, parent, root_kind) ==
    LET other == IF root_kind = "VariableNode" THEN "FactorNode" ELSE "VariableNode"
    IN  [i \in 1..n |-> IF Depth(parent, i, n) % 2 = 0 THEN root_kind ELSE other]

TreeEdges(n, parent) == [i \in 1..(n - 1) |-> <<i + 1, <<parent[i + 1]>> >>]

\* The graph of the module docstring: x1..x5 are nodes 1..5, fA..fE nodes 6..10.
ExampleKinds == [i \in 1..10 |-> IF i <= 5 THEN "VariableNode" ELSE "FactorNode"]

ExampleEdges ==
    << <<6, <<1>> >>, <<7, <<2>> >>, <<8, <<1, 2, 3>> >>,
       <<9, <<3, 4>> >>, <<10, <<3, 5>> >> >>

InitRest ==
    /\ pc = "idle"
    /\ step = 1
    /\ eligible_senders = <<>>
    /\ calls = <<>>
    /\ err = "None"
    /\ deliveries = <<>>
    /\ reference = <<>>
    /\ retval = <<>>

InitTrees(max) ==
    /\ seed \in 0..MaxSeed
    /\ \E n \in 1..max : \E parent \in TreeParents(n) :
       \E root_kind \in {"VariableNode", "FactorNode"} :
          nodes = BuildGraph(TreeKinds(n, parent, root_kind), TreeEdges(n, parent), seed)
    /\ InitRest

InitExample ==
    /\ seed \in 0..MaxSeed
    /\ nodes = BuildGraph(ExampleKinds, ExampleEdges, seed)
    /\ InitRest

Init == InitTrees(MaxNodes)

\* The factor functions replaced by functions that leave out a parameter for
\* each edge of omitted: the factor node of the edge has a neighbour its
\* function does not mention.
Unmention(ns, omitted, sd) ==
    [i \in DOMAIN ns |->
        IF ns[i].kind = "FactorNode"
        THEN [ns[i] EXCEPT
                !.func = Factor(i, SortedSeq({k \in Range(ns[i].neighbours) :
                                                 {i, k} \notin omitted}), sd)]
        ELSE ns[i]]

\* Trees whose factor functions mention all, some or none of their neighbours.
EvidenceInit ==
    /\ seed \in 0..MaxSeed
    /\ \E n \in 1..MaxNodes : \E parent \in TreeParents(n) :
       \E root_kind \in {"VariableNode", "FactorNode"} :
       \E omitted \in SUBSET {{i, parent[i]} : i \in 2..n} :
          nodes = Unmention(BuildGraph(TreeKinds(n, parent, root_kind),
                                       TreeEdges(n, parent), seed), omitted, seed)
    /\ InitRest

RunInit == InitTrees(MaxTreeNodes) \/ InitExample

----------------------------------------------------------------------------
\* Graph construction, one constructor or connect call at a time.

\* The lists of at most MaxListLen of the nodes created so far.
NodeLists(ns) == UNION {[1..k -> DOMAIN ns] : k \in 0..MaxListLen}

BuildInit ==
    /\ seed \in 0..MaxSeed
    /\ nodes = <<>>
    /\ InitRest

\* VariableNode(name) and VariableNode(name, neighbours): neighbours[:] is
\* stored, the nodes of the list are not touched.
CreateVariableNode ==
    /\ Len(nodes) < MaxBuildNodes
    /\ Len(calls) < MaxBuildCalls
    /\ \E neighbours \in NodeLists(nodes) :
          nodes' = Append(nodes, VariableNode(Len(nodes) + 1, neighbours))
    /\ calls' = Append(calls, <<"VariableNode">>)
    /\ UNCHANGED <<seed, pc, step, eligible_senders, err, deliveries, reference, retval>>

\* FactorNode(name, func) and FactorNode(name, func, neighbours); func has a
\* parameter for each node of the list.
CreateFactorNode ==
    /\ Len(nodes) < MaxBuildNodes
    /\ Len(calls) < MaxBuildCalls
    /\ \E neighbours \in NodeLists(nodes) :
          nodes' = Append(nodes,
                          FactorNode(Len(nodes) + 1,
                                     Factor(Len(nodes) + 1, SortedSeq(Range(neighbours)), seed),
                                     neighbours))
    /\ calls' = Append(calls, <<"FactorNode">>)
    /\ UNCHANGED <<seed, pc, step, eligible_senders, err, deliveries, reference, retval>>

\* connect(a, b) with b a node: b is wrapped into a list.
Connect ==
    /\ Len(calls) < MaxBuildCalls
    /\ \E a \in DOMAIN nodes : \E b \in DOMAIN nodes :
          nodes' = connect(nodes, a, <<b>>)
    /\ calls' = Append(calls, <<"connect">>)
    /\ UNCHANGED <<seed, pc, step, eligible_senders, err, deliveries, reference, retval>>

\* connect(a, b) with b a list of nodes.
ConnectList ==
    /\ Len(calls) < MaxBuildCalls
    /\ \E a \in DOMAIN nodes : \E b \in NodeLists(nodes) :
          nodes' = connect(nodes, a, b)
    /\ calls' = Append(calls, <<"connect list">>)
    /\ UNCHANGED <<seed, pc, step, eligible_senders, err, deliveries, reference, retval>>

BuildNext == CreateVariableNode \/ CreateFactorNode \/ Connect \/ ConnectList

BuildSpec == BuildInit /\ [][BuildNext]_vars

----------------------------------------------------------------------------
\* eliminate_var and make_not_sum_func applied to one function, which is held
\* by a lone FactorNode, and the result called at one binding.

\* The parameter lists of at most MaxParams distinct names.
Argspecs ==
    {args \in UNION {[1..k -> 1..MaxParams] : k \in 1..MaxParams} :
        \A i \in DOMAIN args : \A j \in DOMAIN args : args[i] = args[j] => i = j}

\* A function whose domains attribute has entries for some of its parameters.
ElimInit ==
    /\ seed \in 0..MaxSeed
    /\ \E args \in Argspecs : \E registered \in SUBSET Range(args) :
          nodes = << FactorNode(1, [Factor(1, args, seed) EXCEPT
                                      !.domains = [x \in registered |-> Domain]], <<>>) >>
    /\ InitRest

\* eliminate_var(f, var), then the returned function called at binding b.
EliminateVar ==
    /\ calls = <<>>
    /\ LET f == nodes[1].func IN
       \E var \in Range(get_args(f)) : \E outcome \in eliminate_var_raises(f, var) :
          IF outcome # "None"
          THEN /\ err' = outcome
               /\ retval' = <<>>
               /\ calls' = << <<"eliminate_var", var>> >>
          ELSE LET eliminated == eliminate_var(f, var) IN
               \E b \in Bindings(Range(get_args(eliminated))) :
                  /\ err' = CallRaises(eliminated, b)
                  /\ retval' = IF CallRaises(eliminated, b) = "None"
                               THEN <<Call(eliminated, b)>> ELSE <<>>
                  /\ calls' = << <<"eliminate_var", var, b>> >>
    /\ UNCHANGED <<nodes, seed, pc, step, eligible_senders, deliveries, reference>>

\* make_not_sum_func(f, keep_var), then the returned function called at binding b.
MakeNotSumFunc ==
    /\ calls = <<>>
    /\ LET f == nodes[1].func IN
       \E keep_var \in 1..MaxParams : \E outcome \in make_not_sum_func_raises(f, keep_var) :
          IF outcome # "None"
          THEN /\ err' = outcome
               /\ retval' = <<>>
               /\ calls' = << <<"make_not_sum_func", keep_var>> >>
          ELSE LET new_func == make_not_sum_func(f, keep_var) IN
               \E b \in Bindings(Range(get_args(new_func))) :
                  /\ err' = CallRaises(new_func, b)
                  /\ retval' = IF CallRaises(new_func, b) = "None"
                               THEN <<Call(new_func, b)>> ELSE <<>>
                  /\ calls' = << <<"make_not_sum_func", keep_var, b>> >>
    /\ UNCHANGED <<nodes, seed, pc, step, eligible_senders, deliveries, reference>>

ElimNext == EliminateVar \/ MakeNotSumFunc

ElimSpec == ElimInit /\ [][ElimNext]_vars

----------------------------------------------------------------------------
\* FactorGraph.propagate, one step at a time.

\* get_eligible_senders changed: every node is taken, with a target or not.
get_eligible_senders_all_nodes(ns) == [i \in 1..Len(ns) |-> i]

\* FactorGraph.get_eligible_senders
get_eligible_senders(ns) ==
    SelectSeq([i \in 1..Len(ns) |-> i], LAMBDA i : get_target(ns, i) # {})

Mailboxes(ns) == [i \in DOMAIN ns |-> ns[i].received_messages]

\* What construct_message and send raise when get_target returned None: the
\* lookup of a missing mailbox entry comes first, the attribute of None last.
NoTargetError(ns, n) ==
    IF /\ ~is_leaf(ns[n])
       /\ \E j \in DOMAIN ns[n].neighbours :
             ns[ns[n].neighbours[j]].name \notin DOMAIN ns[n].received_messages
    THEN "KeyError"
    ELSE "AttributeError"

\* The call propagate(): step = 1, then the while loop.
PropagateCall ==
    /\ pc = "idle"
    /\ Len(calls) < MaxCalls
    /\ pc' = "while"
    /\ step' = 1
    /\ eligible_senders' = <<>>
    /\ calls' = Append(calls, <<"propagate">>)
    /\ err' = "None"
    /\ UNCHANGED <<nodes, seed, deliveries, reference, retval>>

\* The head of the while loop: the eligible senders of this round, break when
\* there are none.
WhileHead ==
    /\ pc = "while"
    /\ LET eligible == get_eligible_senders(nodes) IN
       IF eligible = <<>>
       THEN /\ pc' = "idle"
            /\ eligible_senders' = <<>>
            /\ reference' = IF calls = << <<"propagate">> >>
                            THEN Mailboxes(nodes) ELSE reference
       ELSE /\ pc' = "for"
            /\ eligible_senders' = eligible
            /\ reference' = reference
    /\ UNCHANGED <<nodes, seed, step, calls, err, deliveries, retval>>

\* One iteration of the for loop: construct_message, send; step += 1 after
\* the last one.
ForBody ==
    /\ pc = "for"
    /\ eligible_senders # <<>>
    /\ LET node == Head(eligible_senders) IN
       IF get_target(nodes, node) = {}
       THEN /\ err' = NoTargetError(nodes, node)
            /\ pc' = "idle"
            /\ eligible_senders' = <<>>
            /\ UNCHANGED <<nodes, step, deliveries>>
       ELSE \E target \in get_target(nodes, node) :
            LET message == construct_message(nodes, node, target)
                key == <<node, target>>
            IN  /\ nodes' = send(nodes, node, message)
                /\ deliveries' =
                      IF key \in DOMAIN deliveries
                      THEN [deliveries EXCEPT ![key] = @ + 1]
                      ELSE (key :> 1) @@ deliveries
                /\ eligible_senders' = Tail(eligible_senders)
                /\ pc' = IF Tail(eligible_senders) = <<>> THEN "while" ELSE "for"
                /\ step' = IF Tail(eligible_senders) = <<>> THEN step + 1 ELSE step
                /\ err' = err
    /\ UNCHANGED <<seed, calls, reference, retval>>

----------------------------------------------------------------------------
\* The other API calls, made between propagate() calls.

Reset ==
    /\ pc = "idle"
    /\ Len(calls) < MaxCalls
    /\ nodes' = FactorGraph_reset(nodes)
    /\ deliveries' = <<>>
    /\ calls' = Append(calls, <<"reset">>)
    /\ err' = "None"
    /\ UNCHANGED <<seed, pc, step, eligible_senders, reference, retval>>

AddEvidence ==
    /\ pc = "idle"
    /\ Len(calls) < MaxCalls
    /\ \E v \in DOMAIN nodes : \E value \in Domain :
          /\ nodes[v].kind = "VariableNode"
          /\ nodes' = add_evidence(nodes, v, value)
          /\ calls' = Append(calls, <<"add_evidence", v, value>>)
    /\ err' = "None"
    /\ UNCHANGED <<seed, pc, step, eligible_senders, deliveries, reference, retval>>

PopEvidence ==
    /\ pc = "idle"
    /\ Len(calls) < MaxCalls
    /\ \E f \in DOMAIN nodes :
          /\ nodes[f].kind = "FactorNode"
          /\ LET r == FactorNode_pop_evidence(nodes[f]) IN
                /\ nodes' = [nodes EXCEPT ![f] = r.node]
                /\ err' = r.raised
          /\ calls' = Append(calls, <<"pop_evidence", f>>)
    /\ UNCHANGED <<seed, pc, step, eligible_senders, deliveries, reference, retval>>

Next == PropagateCall \/ WhileHead \/ ForBody \/ Reset \/ AddEvidence \/ PopEvidence

Spec == Init /\ [][Next]_vars

\* Every factor function has a parameter for each neighbour of its node.
MentionsAll(ns) ==
    \A f \in DOMAIN ns :
        ns[f].kind = "FactorNode" =>
            Range(get_args(ns[f].func)) = {ns[k].name : k \in Range(ns[f].neighbours)}

\* propagate() is called on the graphs whose factors mention all their neighbours.
EvidencePropagateCall == MentionsAll(nodes) /\ PropagateCall

EvidenceNext ==
    EvidencePropagateCall \/ WhileHead \/ ForBody \/ Reset \/ AddEvidence \/ PopEvidence

\* The lifecycle on graphs that may have factors not mentioning a neighbour.
EvidenceSpec == EvidenceInit /\ [][EvidenceNext]_vars

\* node.marginal(val) on a VariableNode, between two other calls.
VariableMarginal ==
    /\ pc = "idle"
    /\ Len(calls) < MaxCalls
    /\ \E v \in DOMAIN nodes : \E val \in Domain :
          /\ nodes[v].kind = "VariableNode"
          /\ err' = marginal_raises(nodes[v], val)
          /\ retval' = IF marginal_raises(nodes[v], val) = "None"
                       THEN <<marginal(nodes[v], val, 1)>> ELSE <<>>
          /\ calls' = Append(calls, <<"VariableNode.marginal", v, val>>)
    /\ UNCHANGED <<nodes, seed, pc, step, eligible_senders, deliveries, reference>>

\* node.marginal(val_dict) on a FactorNode, val_dict giving a value to each
\* parameter of the node's function.
FactorMarginal ==
    /\ pc = "idle"
    /\ Len(calls) < MaxCalls
    /\ \E f \in DOMAIN nodes :
          /\ nodes[f].kind = "FactorNode"
          /\ \E val_dict \in Bindings(Range(get_args(nodes[f].func))) :
                /\ err' = FactorNode_marginal_raises(nodes, f, val_dict)
                /\ retval' = IF FactorNode_marginal_raises(nodes, f, val_dict) = "None"
                             THEN <<FactorNode_marginal(nodes, f, val_dict)>> ELSE <<>>
                /\ calls' = Append(calls, <<"FactorNode.marginal", f, val_dict>>)
    /\ UNCHANGED <<nodes, seed, pc, step, eligible_senders, deliveries, reference>>

QueryNext == Next \/ VariableMarginal \/ FactorMarginal

\* The lifecycle with marginal queries made at any time between the calls.
QuerySpec == Init /\ [][QueryNext]_vars

\* A single propagate() on a freshly built graph, run to its end.
RunCall == calls = <<>> /\ PropagateCall

RunNext == RunCall \/ WhileHead \/ ForBody

\* The states in which a step of RunNext is possible: ENABLED <<RunNext>>_vars
\* written out from the guards (every step of RunNext changes pc or
\* eligible_senders).
CanStep ==
    \/ pc = "idle" /\ calls = <<>>
    \/ pc = "while"
    \/ pc = "for" /\ eligible_senders # <<>>

CanStepIsEnabled == CanStep <=> ENABLED <<RunNext>>_vars

\* propagate() is one uninterrupted call of a single thread, it keeps stepping
\* while it can: weak fairness of RunNext, WF_vars(RunNext), stated with
\* CanStep for ENABLED <<RunNext>>_vars.
RunFairness == []<>(~CanStep) \/ []<><<RunNext>>_vars

RunSpec == RunInit /\ [][RunNext]_vars /\ RunFairness

----------------------------------------------------------------------------
\* Quantities the properties speak of.

NodeIds == DOMAIN nodes

Neighbours(n) == Range(nodes[n].neighbours)

VariableIds == {n \in NodeIds : nodes[n].kind = "VariableNode"}

FactorIds == {n \in NodeIds : nodes[n].kind = "FactorNode"}

\* propagate() has been called and has returned.
Returned == pc = "idle" /\ calls # <<>> /\ calls[Len(calls)] = <<"propagate">>

\* The number of iterations of the while loop that did not break.
SendingRounds == step - 1

NumDirectedEdges == SumFn([n \in NodeIds |-> Len(nodes[n].neighbours)])

RECURSIVE Ball(_, _)
\* The nodes at most k edges away from a node of S.
Ball(S, k) ==
    IF k = 0 THEN S
    ELSE LET B == Ball(S, k - 1) IN B \cup UNION {Neighbours(n) : n \in B}

Eccentricity(a) == Min({k \in 0..Len(nodes) : Ball({a}, k) = NodeIds})

\* The number of edges of the longest path of the (connected) graph.
Diameter == Max({Eccentricity(a) : a \in NodeIds})

\* The sum, over the joint assignments of all variables with v = d, of the
\* product of all factor nodes' active functions.
BruteForce(v, d) ==
    LET factor_ids == SortedSeq(FactorIds)
        Joint(a) == ProdSeq([i \in DOMAIN factor_ids |-> Call(nodes[factor_ids[i]].func, a)])
        Assignments == {a \in [VariableIds -> Domain] : a[v] = d}
    IN  SumFn([a \in Assignments |-> Joint(a)])

EveryEdgeCarriesBoth ==
    \A a \in NodeIds : \A b \in Neighbours(a) :
        /\ nodes[b].name \in DOMAIN nodes[a].received_messages
        /\ nodes[a].name \in DOMAIN nodes[b].received_messages
        /\ <<a, b>> \in DOMAIN deliveries /\ deliveries[<<a, b>>] = 1

----------------------------------------------------------------------------
\* C1: on every tree, propagate() started from Idle returns, and when it has
\* returned every edge {a, b} has carried exactly one message in each
\* direction: a's mailbox has an entry under b's name, b's under a's name.
C1_TerminatesWithBothDirections ==
    /\ <>Returned
    /\ [](Returned => (err = "None" /\ EveryEdgeCarriesBoth))

\* The docstring's graph has converged: all 18 directed edges carry a message.
C1_Witness ==
    /\ Returned
    /\ Len(nodes) = 10
    /\ EveryEdgeCarriesBoth
    /\ Cardinality(DOMAIN deliveries) = 18

\* C2 as stated: the rounds of propagate() in which a message is sent number
\* at most diameter(graph).
C2_RoundsWithinDiameter == Returned => SendingRounds <= Diameter

\* C2 amended: the rounds in which a message is sent number at most the
\* directed edges of the tree, 2 * (number of edges); a node sends one
\* message a round, so a node with several neighbours needs several rounds.
C2_RoundsWithinDirectedEdges == SendingRounds <= NumDirectedEdges

\* A run that has returned after more sending rounds than the diameter.
C2_Witness == Returned /\ SendingRounds > Diameter /\ SendingRounds <= NumDirectedEdges

\* C3: between two resets no mailbox key is written twice: every directed
\* edge has had at most one delivery since the last reset, over any number of
\* propagate() calls and any order of the node list.
C3_AtMostOneDelivery ==
    \A key \in DOMAIN deliveries : deliveries[key] <= 1

\* A second propagate() without a reset has returned on a three-node graph
\* whose four directed edges were all delivered once.
C3_Witness ==
    /\ pc = "idle"
    /\ Len(calls) >= 2
    /\ calls[Len(calls)] = <<"propagate">>
    /\ calls[Len(calls) - 1] = <<"propagate">>
    /\ Cardinality(DOMAIN deliveries) = 4
    /\ C3_AtMostOneDelivery

\* The neighbours the eligibility rule allows node n to send to.
EligibleTargets(n) ==
    {t \in Neighbours(n) :
        /\ \A o \in Neighbours(n) \ {t} :
              nodes[o].name \in DOMAIN nodes[n].received_messages
        /\ nodes[n].name \notin DOMAIN nodes[t].received_messages}

\* C4: get_target returns a neighbour T only if the node holds a message from
\* every neighbour other than T and T holds none from the node, and returns
\* None exactly when no neighbour is like that; a leaf misses nothing, so with
\* no delivery made yet it is eligible to send to its sole neighbour.
C4_TargetIffEligible ==
    \A n \in NodeIds :
        /\ get_target(nodes, n) = EligibleTargets(n)
        /\ is_leaf(nodes[n]) =>
              /\ needed_to_send(nodes, n, nodes[n].neighbours[1]) = 0
              /\ (/\ nodes[n].received_messages = <<>>
                  /\ nodes[n].name \notin
                        DOMAIN nodes[nodes[n].neighbours[1]].received_messages)
                 => get_target(nodes, n) = {nodes[n].neighbours[1]}

\* In the middle of a round: an inner node that may send to either neighbour,
\* a leaf that has sent and has no target, and a leaf that has yet to send.
C4_Witness ==
    /\ pc = "for"
    /\ \E n \in NodeIds : Cardinality(get_target(nodes, n)) = 2
    /\ \E n \in NodeIds : is_leaf(nodes[n]) /\ get_target(nodes, n) = {}
    /\ C4_TargetIffEligible

\* C5: after propagate() has returned on a tree with no evidence, every
\* variable's marginal(d) with normalizer 1 is the brute-force sum over the
\* joint assignments with v = d of the product of all factors.
C5_MarginalIsBruteForce ==
    Returned =>
        \A v \in VariableIds : \A d \in Domain :
            marginal(nodes[v], d, 1) = [num |-> BruteForce(v, d), den |-> 1]

\* The docstring's five-variable tree has converged and x3's marginal at True
\* is a positive number.
C5_Witness ==
    /\ Returned
    /\ Len(nodes) = 10
    /\ marginal(nodes[3], TRUE, 1).num > 0
    /\ marginal(nodes[3], TRUE, 1).num = BruteForce(3, TRUE)

----------------------------------------------------------------------------
\* The function FactorNode f was constructed with.
OriginalFunc(f) == Factor(f, SortedSeq(Neighbours(f)), seed)

LastCall == calls[Len(calls)]

\* C6: at any depth of the evidence history, add_evidence followed by
\* pop_evidence on a FactorNode gives back the function that was active
\* before the add_evidence (the same output at every binding) and the
\* history as it was.
C6_AddThenPopRestores ==
    \A f \in FactorIds : \A x \in Range(get_args(nodes[f].func)) : \A value \in Domain :
        LET added == FactorNode_add_evidence(nodes[f], x, value)
            popped == FactorNode_pop_evidence(added)
        IN  /\ popped.raised = "None"
            /\ popped.node.func.tab = nodes[f].func.tab
            /\ popped.node.cached_functions = nodes[f].cached_functions

\* C7: after FactorGraph.reset() has run FactorNode.reset() on every factor
\* node, every evidence history is empty, however many layers it held.
C7_ResetEmptiesHistory ==
    (calls # <<>> /\ LastCall = <<"reset">>) =>
        \A f \in FactorIds : nodes[f].cached_functions = <<>>

\* C8: in whatever state a sequence of add_evidence, pop_evidence, propagate
\* and reset calls has left the graph, FactorGraph.reset() ends with every
\* FactorNode's active function being the one it was constructed with and
\* with every mailbox empty.
C8_ResetRestoresOriginal ==
    pc = "idle" =>
        LET after == FactorGraph_reset(nodes) IN
        /\ \A f \in FactorIds :
              /\ after[f].func.tab = OriginalFunc(f).tab
              /\ get_args(after[f].func) = get_args(OriginalFunc(f))
        /\ \A n \in NodeIds : after[n].received_messages = <<>>

\* C9: propagate(); reset(); propagate() ends with the mailboxes of the first
\* propagate() of the fresh graph (the same source, destination and function
\* on every directed edge) and the same marginals at every variable node.
C9_ResetThenPropagateRepeats ==
    (calls = << <<"propagate">>, <<"reset">>, <<"propagate">> >> /\ pc = "idle") =>
        /\ Mailboxes(nodes) = reference
        /\ \A v \in VariableIds : \A d \in Domain :
              marginal(nodes[v], d, 1) =
                 marginal([nodes[v] EXCEPT !.received_messages = reference[v]], d, 1)

\* The second propagate() after a reset has returned on a three-node graph
\* and every mailbox is filled again.
C9_Witness ==
    /\ calls = << <<"propagate">>, <<"reset">>, <<"propagate">> >>
    /\ pc = "idle"
    /\ Len(nodes) = 3
    /\ \A n \in NodeIds : nodes[n].received_messages # <<>>
    /\ Mailboxes(nodes) = reference

\* C10: pop_evidence() on a FactorNode whose evidence history is empty raises
\* (IndexError) and changes nothing: active function, history and mailboxes
\* are as before the call.
C10_PopOnEmptyRaises ==
    [][\A f \in DOMAIN nodes :
          (/\ calls' = Append(calls, <<"pop_evidence", f>>)
           /\ nodes[f].cached_functions = <<>>)
          => (err' = "IndexError" /\ nodes' = nodes)]_vars

\* pop_evidence() has just raised on a node that holds messages.
C10_Witness ==
    /\ err = "IndexError"
    /\ LastCall[1] = "pop_evidence"
    /\ nodes[LastCall[2]].cached_functions = <<>>
    /\ nodes[LastCall[2]].received_messages # <<>>

----------------------------------------------------------------------------
\* C11: whatever add_evidence, pop_evidence and reset calls were made, every
\* FactorNode's active function has the parameter list and the domain map of
\* the function the node was constructed with.
C11_SignatureUnchanged ==
    \A f \in FactorIds :
        /\ get_args(nodes[f].func) = get_args(OriginalFunc(f))
        /\ nodes[f].func.domains = OriginalFunc(f).domains

\* Two evidence layers are pushed on a factor of two parameters: its active
\* function differs from the original in its values, not in its signature.
C11_Witness ==
    \E f \in FactorIds :
        /\ Len(nodes[f].cached_functions) = 2
        /\ Len(get_args(nodes[f].func)) = 2
        /\ nodes[f].func.tab # OriginalFunc(f).tab
        /\ get_args(nodes[f].func) = get_args(OriginalFunc(f))
        /\ nodes[f].func.domains = OriginalFunc(f).domains

----------------------------------------------------------------------------
\* Factor node n is a neighbour of variable v and its function has a
\* parameter named as v.
MentionedBy(v, n) ==
    /\ n \in Range(nodes[v].neighbours)
    /\ nodes[v].name \in Range(get_args(nodes[n].func))

\* C12: add_evidence(v, value) raises nothing and changes the neighbouring
\* factor nodes whose parameter list has v's name, and nothing else: a
\* neighbouring factor that does not mention v, every other node, every
\* mailbox and every neighbour list are as before the call.
C12_AddEvidenceFrame ==
    [][\A v \in DOMAIN nodes : \A value \in Domain :
          calls' = Append(calls, <<"add_evidence", v, value>>) =>
             /\ err' = "None"
             /\ DOMAIN nodes' = DOMAIN nodes
             /\ \A n \in DOMAIN nodes :
                   /\ nodes'[n].received_messages = nodes[n].received_messages
                   /\ nodes'[n].neighbours = nodes[n].neighbours
                   /\ IF MentionedBy(v, n)
                      THEN Len(nodes'[n].cached_functions) =
                              Len(nodes[n].cached_functions) + 1
                      ELSE nodes'[n] = nodes[n]]_vars

\* add_evidence has just run on a variable with two neighbouring factors:
\* one mentions it and was conditioned, the other does not and was skipped.
C12_Witness ==
    /\ calls # <<>>
    /\ LastCall[1] = "add_evidence"
    /\ err = "None"
    /\ \E n \in Range(nodes[LastCall[2]].neighbours) :
          MentionedBy(LastCall[2], n) /\ Len(nodes[n].cached_functions) = 1
    /\ \E n \in Range(nodes[LastCall[2]].neighbours) :
          /\ ~MentionedBy(LastCall[2], n)
          /\ nodes[n].cached_functions = <<>>
          /\ nodes[n].func = Factor(n, <<>>, seed)

----------------------------------------------------------------------------
\* The product of all factor nodes' active functions at the joint assignment a.
JointProduct(ns, a) ==
    LET factor_ids == SortedSeq({n \in DOMAIN ns : ns[n].kind = "FactorNode"})
    IN  ProdSeq([i \in DOMAIN factor_ids |-> Call(ns[factor_ids[i]].func, a)])

\* C13: after add_evidence(v, value) on a variable some neighbouring factor
\* mentions, each such factor's active function returns 0 at every binding
\* with v different from value and the previous function's result at every
\* binding with v equal to value; the product of all factors is then 0 at
\* every joint assignment with v different from value.
C13_ConditionedIsZeroOffEvidence ==
    [][\A v \in DOMAIN nodes : \A value \in Domain :
          (/\ calls' = Append(calls, <<"add_evidence", v, value>>)
           /\ \E n \in DOMAIN nodes : MentionedBy(v, n))
          =>
          /\ \A n \in DOMAIN nodes :
                MentionedBy(v, n) =>
                   \A b \in Bindings(Range(get_args(nodes[n].func))) :
                      /\ CallRaises(nodes'[n].func, b) = "None"
                      /\ Call(nodes'[n].func, b) =
                            IF b[nodes[v].name] # value THEN 0
                            ELSE Call(nodes[n].func, b)
          /\ \A a \in [VariableIds -> Domain] :
                a[v] # value => JointProduct(nodes', a) = 0]_vars

\* add_evidence has just conditioned a factor of two parameters: a binding
\* off the observed value went from a positive number to 0, a binding on the
\* observed value kept its positive number.
C13_Witness ==
    /\ calls # <<>>
    /\ LastCall[1] = "add_evidence"
    /\ \E n \in DOMAIN nodes :
          /\ MentionedBy(LastCall[2], n)
          /\ Len(get_args(nodes[n].func)) = 2
          /\ Len(nodes[n].cached_functions) = 1
          /\ \E b \in DOMAIN nodes[n].func.tab :
                /\ b[LastCall[2]] # LastCall[3]
                /\ nodes[n].cached_functions[1].tab[b] > 0
                /\ nodes[n].func.tab[b] = 0
          /\ \E b \in DOMAIN nodes[n].func.tab :
                /\ b[LastCall[2]] = LastCall[3]
                /\ nodes[n].func.tab[b] > 0
                /\ nodes[n].func.tab[b] = nodes[n].cached_functions[1].tab[b]

----------------------------------------------------------------------------
\* C14: in every state reached by constructor calls (with the default or an
\* explicit neighbour list) and connect calls, the neighbour relation is
\* symmetric: a in b's neighbour list implies b in a's neighbour list.
C14_NeighboursSymmetric ==
    \A a \in NodeIds : \A b \in Neighbours(a) : a \in Neighbours(b)

----------------------------------------------------------------------------
RECURSIVE Reach(_, _, _)
\* The nodes at most k edges away from a node of S on paths that avoid b.
Reach(S, b, k) ==
    IF k = 0 THEN S
    ELSE LET R == Reach(S, b, k - 1)
         IN  R \cup (UNION {Neighbours(n) : n \in R} \ {b})

\* The part of the tree on a's side of the edge {a, b}.
Side(a, b) == Reach({a}, b, Len(nodes))

\* What the message from a to b has to be at value d of the edge's variable,
\* whatever the schedule: the product of the factors on a's side, summed over
\* the other variables of that side.
SideSum(a, b, d) ==
    LET x == IF nodes[a].kind = "VariableNode" THEN a ELSE b
        side == Side(a, b)
        variables == {n \in side : nodes[n].kind = "VariableNode"} \cup {x}
        factor_ids == SortedSeq({n \in side : nodes[n].kind = "FactorNode"})
        Assignments == {al \in [variables -> Domain] : al[x] = d}
    IN  SumFn([al \in Assignments |->
                 ProdSeq([i \in DOMAIN factor_ids |-> Call(nodes[factor_ids[i]].func, al)])])

\* The message a has delivered to b is the one from a to b and its function
\* is the schedule-independent one.
MessageIsSideSum(a, b) ==
    LET m == nodes[b].received_messages[nodes[a].name]
        x == IF nodes[a].kind = "VariableNode" THEN a ELSE b
    IN  /\ m.source = a
        /\ m.destination = b
        /\ \A d \in Domain :
              /\ MessageRaises(m, (nodes[x].name :> d)) = "None"
              /\ MessageCall(m, (nodes[x].name :> d)) = SideSum(a, b, d)

\* C15: on a tree, for every order of the node list and every choice
\* get_target makes among several eligible neighbours, each message delivered
\* is the same function of the edge's variable (it depends on the graph
\* alone), and when propagate() has returned the mailboxes hold exactly one
\* such message per directed edge; the marginals, products of these, are
\* then the same too.
C15_ScheduleIndependent ==
    \A b \in NodeIds :
        /\ Returned =>
              DOMAIN nodes[b].received_messages = {nodes[a].name : a \in Neighbours(b)}
        /\ \A a \in Neighbours(b) :
              nodes[a].name \in DOMAIN nodes[b].received_messages => MessageIsSideSum(a, b)

\* propagate() has returned on a five-node tree with a node of three or more
\* neighbours (which had to choose among targets); every directed edge holds
\* its schedule-independent message and some message value exceeds 1.
C15_Witness ==
    /\ Returned
    /\ Len(nodes) = 5
    /\ \E n \in NodeIds : Len(nodes[n].neighbours) >= 3
    /\ \A b \in NodeIds : \A a \in Neighbours(b) :
          /\ nodes[a].name \in DOMAIN nodes[b].received_messages
          /\ MessageIsSideSum(a, b)
    /\ \E b \in NodeIds : \E a \in Neighbours(b) : \E d \in Domain : SideSum(a, b, d) > 1

----------------------------------------------------------------------------
\* C16: summing out a parameter X of a function whose domain map has no
\* entry for X ends in an error and returns no number: eliminate_var raises,
\* or the call of the function it returns does (KeyError on the domain map
\* when the map is not empty); the same when X is one of the parameters
\* make_not_sum_func sums out.
C16_MissingDomainRaises ==
    calls # <<>> =>
        LET f == nodes[1].func
            summed == IF LastCall[1] = "eliminate_var" THEN {LastCall[2]}
                      ELSE Range(get_args(f)) \ {LastCall[2]}
        IN  (\E X \in summed : X \notin DOMAIN f.domains) =>
                /\ err # "None"
                /\ retval = <<>>
                /\ DOMAIN f.domains # {} => err = "KeyError"

\* make_not_sum_func has summed out two of three parameters; the first one
\* has no domain, the second has one: the call of the result raised KeyError
\* from inside the sum over the second.
C16_Witness ==
    /\ calls # <<>>
    /\ LastCall[1] = "make_not_sum_func"
    /\ LET args == get_args(nodes[1].func) IN
          /\ Len(args) = 3
          /\ LastCall[2] = args[3]
          /\ args[1] \notin DOMAIN nodes[1].func.domains
          /\ args[2] \in DOMAIN nodes[1].func.domains
    /\ err = "KeyError"
    /\ retval = <<>>

----------------------------------------------------------------------------
\* Every edge of node n has carried its message in both directions.
NodeConverged(n) ==
    \A b \in Neighbours(n) :
        /\ nodes[b].name \in DOMAIN nodes[n].received_messages
        /\ nodes[n].name \in DOMAIN nodes[b].received_messages

\* C17: marginal() on a node some edge of which has not carried its message
\* yet (also before any propagate()) ends in an error and returns no product
\* of the messages received so far.
C17_MarginalBeforeConvergedRaises ==
    (/\ calls # <<>>
     /\ LastCall[1] \in {"VariableNode.marginal", "FactorNode.marginal"}
     /\ ~NodeConverged(LastCall[2]))
    => (err # "None" /\ retval = <<>>)

----------------------------------------------------------------------------
\* C18: inside a round, every node still waiting in the eligible list has a
\* target, whatever the nodes before it have delivered in the same round, and
\* holds a message from every neighbour other than a target it may be given:
\* construct_message never gets the no-target value and never looks up a
\* missing mailbox entry, so propagate() raises neither.
C18_EligibleStillHasTarget ==
    /\ err \notin {"KeyError", "AttributeError"}
    /\ pc = "for" =>
          \A i \in DOMAIN eligible_senders :
              LET n == eligible_senders[i] IN
              /\ get_target(nodes, n) # {}
              /\ \A t \in get_target(nodes, n) : \A o \in Neighbours(n) \ {t} :
                    nodes[o].name \in DOMAIN nodes[n].received_messages

\* In the first round of a run the node whose turn it is has already been
\* delivered a message by an earlier node of the round, and it still has its
\* target.
C18_Witness ==
    /\ pc = "for"
    /\ step = 1
    /\ eligible_senders # <<>>
    /\ nodes[Head(eligible_senders)].received_messages # <<>>
    /\ get_target(nodes, Head(eligible_senders)) # {}

----------------------------------------------------------------------------
\* C19: every mailbox entry of a node n, stored under key k, is a message
\* whose source is the neighbour of n named k and whose destination is n;
\* make_factor_node_message therefore takes every received message as it is
\* and never re-wraps one.
C19_MailboxEntriesAddressed ==
    \A n \in NodeIds : \A k \in DOMAIN nodes[n].received_messages :
        LET m == nodes[n].received_messages[k] IN
        /\ m.source \in Neighbours(n)
        /\ nodes[m.source].name = k
        /\ m.destination = n
        /\ Rewrap(n, m.source, m) = m

\* propagate() has returned on a three-node path with a factor node in the
\* middle, which built its two messages from received ones; every mailbox
\* holds the messages of the node's neighbours, addressed to the node.
C19_Witness ==
    /\ Returned
    /\ Len(nodes) = 3
    /\ \E f \in FactorIds : Len(nodes[f].neighbours) = 2
    /\ \A n \in NodeIds :
          /\ DOMAIN nodes[n].received_messages = {nodes[b].name : b \in Neighbours(n)}
          /\ \A k \in DOMAIN nodes[n].received_messages :
                nodes[n].received_messages[k].destination = n

----------------------------------------------------------------------------
\* A propagate() call has returned and reset() has not been called since.
Stopped ==
    \E i \in DOMAIN calls :
        /\ calls[i] = <<"propagate">>
        /\ i < Len(calls) \/ pc = "idle"
        /\ \A j \in (i + 1)..Len(calls) : calls[j] # <<"reset">>

\* Every directed edge has its message in the recipient's mailbox.
Converged ==
    \A a \in NodeIds : \A b \in Neighbours(a) :
        nodes[a].name \in DOMAIN nodes[b].received_messages

\* C20: once propagate() has returned on a tree, and until reset() is
\* called, the graph stays converged: no node is an eligible sender, a
\* further propagate() call (also after add_evidence or pop_evidence) never
\* enters its for loop, and no step delivers a message or changes a mailbox.
C20_ConvergedIsAbsorbing ==
    /\ [](Stopped =>
            /\ Converged
            /\ get_eligible_senders(nodes) = <<>>
            /\ pc # "for")
    /\ [][(Stopped /\ calls' # Append(calls, <<"reset">>)) =>
            /\ Mailboxes(nodes') = Mailboxes(nodes)
            /\ deliveries' = deliveries]_vars

\* propagate(), add_evidence, propagate() on a three-node graph: the second
\* propagate() has returned without a sending round and the mailboxes are
\* those the first one left.
C20_Witness ==
    /\ Len(calls) = 3
    /\ calls[1] = <<"propagate">>
    /\ calls[2][1] = "add_evidence"
    /\ calls[3] = <<"propagate">>
    /\ pc = "idle"
    /\ step = 1
    /\ Len(nodes) = 3
    /\ Converged
    /\ Mailboxes(nodes) = reference
    /\ \E f \in FactorIds : Len(nodes[f].cached_functions) = 1

====
